---- MODULE Spec2Model ----
(***************************************************************************)
(* Schema-driven structural validator of dkooll/gophx (src/unnamed/part_001*)
(* package main): the builder that turns a syntax body into a BlockData    *)
(* tree, and the recursive Validate walk of that tree against a            *)
(* SchemaBlock tree, appending ValidationFindings to a shared collector.   *)
(*                                                                         *)
(* The walk is modelled statement by statement with an explicit call stack:*)
(* one frame per active Validate call, one action per loop iteration.  Go  *)
(* iterates maps in an unspecified order, so each iteration picks any key  *)
(* not yet visited.  Slices are (array, len) pairs over a heap of backing  *)
(* arrays so that append's in-place writes are visible.  The builder is a  *)
(* family of operators applied by the one action ParseMainFile.            *)
(*                                                                         *)
(* Spec starts from BlockData trees given directly (any tree, any schema); *)
(* SpecBuild starts from syntax bodies, builds the tree and then walks it. *)
(***************************************************************************)
EXTENDS Integers, Sequences, FiniteSets, TLC

VARIABLES
    body,           \* blk.Body: the *hclsyntax.Body of the resource block
    resType,        \* res.Type of the resource under validation
    data,           \* res.data: the root BlockData
    schema,         \* resourceSchema.Block: the root *SchemaBlock (may be nil)
    ancestorIgnore, \* the parentIgnore argument of the outermost Validate call
    heap,           \* backing arrays of the []string slices built by append
    stack,          \* active Validate calls, outermost first
    findings,       \* the collector *[]ValidationFinding
    pc,             \* "parse" | "next" | "ready" | "running" | "done" | "panic"
    pending,        \* the resources the loop over resources has not reached yet
    issues,         \* the open issues of the repository, as the list request returns them
    sink,           \* CreateOrUpdateIssue calls made, and what the last one did (history)
    report,         \* monoguard: the report []int handed to ValidateReports
    safe,           \* monoguard: <<b>> once ValidateReports returned b, <<>> before
    mr,             \* mulcalc: the *MulReconcilerImpl (input, results, total)
    err,            \* mulcalc: what the Process calls so far returned, oldest first (history)
    calls,          \* history: the Validate calls made so far (not program state)
    runs            \* history: the outermost calls, each with the collector's length then

vars ==
    <<body, resType, data, schema, ancestorIgnore, heap, stack, findings, pc, pending,
      issues, sink, report, safe, mr, err, calls, runs>>

(***************************************************************************)
(* Bounds of the model.                                                    *)
(***************************************************************************)
MaxMinItems == 1   \* min_items of a schema block type ranges over 0..MaxMinItems
MaxIgnore == 1     \* longest ignoreChanges list of one block
MaxSpare == 1      \* largest spare capacity of a caller-supplied parentIgnore
MaxElems == 2      \* most elements of an ignore_changes collection
MaxBlocks == 2     \* most nested blocks written in a resource body
MaxResources == 2  \* most resources in the file
MaxCalls == 2      \* most CreateOrUpdateIssue calls (runs of the test)
MaxFindings == 2   \* longest findings list handed to CreateOrUpdateIssue

(***************************************************************************)
(* Data model                                                              *)
(***************************************************************************)

\* A partial map with keys in K and values in V (a Go map; a missing key reads nil).
PMaps(K, V) == UNION {[d -> V] : d \in SUBSET K}

\* Sequences over S of length at most n.
SeqsUpTo(S, n) == UNION {[1..k -> S] : k \in 0..n}

\* type SchemaAttribute struct { Required, Optional, Computed bool }
SchemaAttribute == [Required : BOOLEAN, Optional : BOOLEAN, Computed : BOOLEAN]

\* A nil *SchemaBlock.
NilSchema == [IsNil |-> TRUE]

\* type SchemaBlock struct { Attributes map[string]*SchemaAttribute; BlockTypes map[string]*SchemaBlockType }
SchemaBlock(attributes, blockTypes) ==
    [IsNil |-> FALSE, Attributes |-> attributes, BlockTypes |-> blockTypes]

\* type SchemaBlockType struct { Nesting; MinItems; MaxItems; Block }: the validator
\* reads MinItems and Block only.
SchemaBlockType(minItems, block) == [MinItems |-> minItems, Block |-> block]

\* type BlockData struct { properties; staticBlocks; dynamicBlocks; ignoreChanges }
\* properties is the set of keys of the map[string]bool (every stored value is true).
BlockData(properties, staticBlocks, dynamicBlocks, ignoreChanges) ==
    [properties |-> properties, staticBlocks |-> staticBlocks,
     dynamicBlocks |-> dynamicBlocks, ignoreChanges |-> ignoreChanges]

\* func NewBlockData() BlockData
NewBlockData == BlockData({}, <<>>, <<>>, <<>>)

\* type ValidationFinding struct { ResourceType, Path, Name string; Required, IsBlock bool }
ValidationFinding(rt, path, name, required, isBlock) ==
    [ResourceType |-> rt, Path |-> path, Name |-> name,
     Required |-> required, IsBlock |-> isBlock]

(***************************************************************************)
(* Go slices of strings: a slice is a backing array of the heap (0: none)  *)
(* and a length; its capacity is the length of the array.                  *)
(***************************************************************************)
NilSlice == [arr |-> 0, len |-> 0]

Cap(h, s) == IF s.arr = 0 THEN 0 ELSE Len(h[s.arr])

Elems(h, s) == IF s.arr = 0 THEN <<>> ELSE SubSeq(h[s.arr], 1, s.len)

\* runtime.growslice for a small []string: double, or the needed length if larger.
GrowCap(oldCap, newLen) == IF newLen > 2 * oldCap THEN newLen ELSE 2 * oldCap

Zeros(n) == [i \in 1..n |-> ""]

\* append(s, xs...): the heap afterwards.
AppendHeap(h, s, xs) ==
    LET newLen == s.len + Len(xs) IN
    IF Len(xs) = 0 THEN h
    ELSE IF newLen <= Cap(h, s)
    THEN [h EXCEPT ![s.arr] =
            [i \in 1..Len(h[s.arr]) |->
                IF i > s.len /\ i <= newLen THEN xs[i - s.len] ELSE h[s.arr][i]]]
    ELSE Append(h, Elems(h, s) \o xs \o Zeros(GrowCap(Cap(h, s), newLen) - newLen))

\* append(s, xs...): the slice returned.
AppendSlice(h, s, xs) ==
    LET newLen == s.len + Len(xs) IN
    IF Len(xs) = 0 THEN s
    ELSE IF newLen <= Cap(h, s) THEN [arr |-> s.arr, len |-> newLen]
    ELSE [arr |-> Len(h) + 1, len |-> newLen]

\* func contains(list []string, s string) bool
contains(list, s) == \E i \in 1..Len(list) : list[i] = s

(***************************************************************************)
(* Inputs.  The names are those of the repository's scenarios; attribute   *)
(* and block-type names are disjoint, as in every provider schema.         *)
(***************************************************************************)
AttrNames == {"tags", "sku"}
BlockNames == {"ip_rule", "timeouts"}
IgnoreNames == {"tags", "ip_rule"}
AncestorNames == {"sku"}
ResourceTypes == {"azurerm_storage_account"}
Spares == 0..MaxSpare

IgnoreLists == SeqsUpTo(IgnoreNames, MaxIgnore)

\* The parentIgnore a caller passes to the outermost call: nil (as
\* TestValidateTerraformSchema does) or a slice with or without spare capacity.
AncestorArrays ==
    {<<>>} \cup {l \o Zeros(k) : l \in SeqsUpTo(AncestorNames, MaxIgnore) \ {<<>>}, k \in Spares}

AncestorLen(a) == Cardinality({i \in 1..Len(a) : a[i] # ""})

\* The four flag settings a provider schema gives an attribute: required,
\* optional, optional and computed, required and computed.
AttrFlags ==
    {[Required |-> TRUE, Optional |-> FALSE, Computed |-> FALSE],
     [Required |-> FALSE, Optional |-> TRUE, Computed |-> FALSE],
     [Required |-> FALSE, Optional |-> TRUE, Computed |-> TRUE],
     [Required |-> TRUE, Optional |-> FALSE, Computed |-> TRUE]}

RequiredAttr == [Required |-> TRUE, Optional |-> FALSE, Computed |-> FALSE]
OptionalAttr == [Required |-> FALSE, Optional |-> TRUE, Computed |-> FALSE]
ComputedAttr == [Required |-> FALSE, Optional |-> TRUE, Computed |-> TRUE]

MinItemsRange == 0..MaxMinItems

\* Blocks without nested blocks.
Leaves(props, ignores) == {BlockData(p, <<>>, <<>>, i) : p \in props, i \in ignores}

\* The maps holding at most the one key name, its value among kids.
OptChild(name, kids) == {<<>>} \cup {name :> k : k \in kids}

\* The schema of a timeouts block: attributes only.
TimeoutsSchema == SchemaBlock([n \in {"create"} |-> OptionalAttr], <<>>)

\* block_types entries for "timeouts": none, or one with any min_items.
TimeoutsTypes ==
    OptChild("timeouts", {SchemaBlockType(m, TimeoutsSchema) : m \in MinItemsRange})

\* Flat: a resource without nested blocks, every flag setting of every attribute,
\* any of the block types declared without a nested schema block; or no schema
\* at all.
FlatData == Leaves(SUBSET AttrNames, IgnoreLists)

FlatSchemas ==
    {SchemaBlock(a, b) :
        a \in [AttrNames -> AttrFlags],
        b \in PMaps(BlockNames, {SchemaBlockType(m, NilSchema) : m \in MinItemsRange})}
    \cup {NilSchema}

\* Plain: the attributes a, b, c of the round-trip scenario, any of them present,
\* each required or optional, no block types and no exclusions.
PlainNames == {"a", "b", "c"}

PlainData == Leaves(SUBSET PlainNames, {<<>>})

PlainSchemas == {SchemaBlock(a, <<>>) : a \in [PlainNames -> {RequiredAttr, OptionalAttr}]}

\* Nested: one level of blocks; "ip_rule" as a literal block, as a dynamic block,
\* as both or as neither, "timeouts" as a literal block or not.
NestedKids == Leaves(SUBSET {"tags"}, IgnoreLists)

NestedData ==
    {BlockData({}, s1 @@ s2, d, i) :
        s1 \in OptChild("ip_rule", NestedKids),
        s2 \in OptChild("timeouts", {NewBlockData}),
        d \in OptChild("ip_rule", NestedKids),
        i \in IgnoreLists}

NestedKidSchemas ==
    {SchemaBlock([n \in AttrNames |-> IF n = "tags" THEN f ELSE OptionalAttr], <<>>) :
        f \in {RequiredAttr, ComputedAttr}}

NestedSchemas ==
    {SchemaBlock([n \in AttrNames |-> IF n = "tags" THEN RequiredAttr ELSE OptionalAttr],
                 ("ip_rule" :> SchemaBlockType(m, k)) @@ t) :
        m \in MinItemsRange, k \in NestedKidSchemas \cup {NilSchema}, t \in TimeoutsTypes}

\* Deep: a chain of literal "ip_rule" blocks two levels down, each level with its
\* own exclusion list, the schema ending at any level.
DeepData0 == Leaves({{}}, IgnoreLists)

DeepData1 ==
    {BlockData({}, s, <<>>, i) : s \in OptChild("ip_rule", DeepData0), i \in IgnoreLists}

DeepData2 ==
    {BlockData({}, s, <<>>, i) : s \in OptChild("ip_rule", DeepData1), i \in IgnoreLists}

DeepAttrs == [n \in AttrNames |-> IF n = "tags" THEN RequiredAttr ELSE ComputedAttr]

DeepSchemas0 == {SchemaBlock(DeepAttrs, <<>>)}

DeepSchemas1 ==
    {SchemaBlock(DeepAttrs, "ip_rule" :> SchemaBlockType(m, k)) :
        m \in MinItemsRange, k \in DeepSchemas0 \cup {NilSchema}}

DeepSchemas2 ==
    {SchemaBlock(DeepAttrs, "ip_rule" :> SchemaBlockType(m, k)) :
        m \in MinItemsRange, k \in DeepSchemas1 \cup {NilSchema}}

(***************************************************************************)
(* The builder: from a syntax body to a BlockData tree                     *)
(***************************************************************************)

\* A cty.Value as far as the builder inspects it: the kind of its type, its
\* string when it is a string, and its elements in ElementIterator order when it
\* is a list, set, map or tuple (the values of a map, in key order).
Value(ty, str, elems) == [ty |-> ty, str |-> str, elems |-> elems]

StringVal(s) == Value("string", s, <<>>)

NumberVal == Value("number", "", <<>>)

\* *hclsyntax.Body: Attributes maps a name to the value its expression evaluates
\* to without an evaluation context (attr.Expr.Value(nil)); Blocks is in file order.
Body(attributes, blocks) == [Attributes |-> attributes, Blocks |-> blocks]

\* *hclsyntax.Block
Block(type, labels, b) == [Type |-> type, Labels |-> labels, Body |-> b]

\* val.Type().IsCollectionType(): true of list, set and map types only; a tuple,
\* the value of a bracketed literal, is a structural type and not a collection.
IsCollectionType(val) == val.ty \in {"list", "set", "map"}

\* func extractIgnoreChanges(val cty.Value) []string
extractIgnoreChanges(val) ==
    IF IsCollectionType(val)
    THEN LET strs == SelectSeq(val.elems, LAMBDA v : v.ty = "string")
         IN [i \in 1..Len(strs) |-> strs[i].str]
    ELSE <<>>

\* func (bd *BlockData) parseLifecycle(body *hclsyntax.Body): the list is assigned.
parseLifecycle(bd, b) ==
    IF "ignore_changes" \in DOMAIN b.Attributes
    THEN [bd EXCEPT !.ignoreChanges = extractIgnoreChanges(b.Attributes["ignore_changes"])]
    ELSE bd

\* Mutant of findContentBlock: the content child not looked for.
findContentBlockOwnBody(b) == b

\* func findContentBlock(body *hclsyntax.Body) *hclsyntax.Body
findContentBlock(b) ==
    LET found == {i \in 1..Len(b.Blocks) : b.Blocks[i].Type = "content"}
    IN IF found = {} THEN b
       ELSE b.Blocks[CHOOSE i \in found : \A j \in found : i <= j].Body

\* Mutant of mergeBlocks: on a key collision the new child replaces the old one.
mergeBlocksReplace(dest, src) ==
    BlockData(dest.properties \cup src.properties,
              src.staticBlocks @@ dest.staticBlocks,
              src.dynamicBlocks @@ dest.dynamicBlocks,
              dest.ignoreChanges \o src.ignoreChanges)

\* func mergeBlocks(dest, src *ParsedBlock): dest afterwards.
RECURSIVE mergeBlocks(_, _)
mergeBlocks(dest, src) ==
    LET merged(d, s) ==
            [k \in DOMAIN d \cup DOMAIN s |->
                IF k \in DOMAIN d /\ k \in DOMAIN s THEN mergeBlocks(d[k], s[k])
                ELSE IF k \in DOMAIN d THEN d[k] ELSE s[k]]
    IN BlockData(dest.properties \cup src.properties,
                 merged(dest.staticBlocks, src.staticBlocks),
                 merged(dest.dynamicBlocks, src.dynamicBlocks),
                 dest.ignoreChanges \o src.ignoreChanges)

RECURSIVE ParseSyntaxBody(_)

\* func (bd *BlockData) parseDynamicBlock(body *hclsyntax.Body, name string)
parseDynamicBlock(bd, b, name) ==
    LET parsed == ParseSyntaxBody(findContentBlock(b))
    IN IF name \in DOMAIN bd.dynamicBlocks
       THEN [bd EXCEPT !.dynamicBlocks[name] = mergeBlocks(@, parsed)]
       ELSE [bd EXCEPT !.dynamicBlocks = (name :> parsed) @@ @]

\* func (bd *BlockData) ParseAttributes(body *hclsyntax.Body)
ParseAttributes(bd, b) == [bd EXCEPT !.properties = @ \cup DOMAIN b.Attributes]

\* Mutant of ParseBlock: the first literal block of a type kept, later ones dropped.
ParseBlockKeepFirst(bd, block) ==
    CASE block.Type = "lifecycle" -> parseLifecycle(bd, block.Body)
      [] block.Type = "dynamic" ->
            IF Len(block.Labels) = 1
            THEN parseDynamicBlock(bd, block.Body, block.Labels[1])
            ELSE bd
      [] OTHER ->
            [bd EXCEPT !.staticBlocks = @ @@ (block.Type :> ParseSyntaxBody(block.Body))]

\* One iteration of the loop of ParseBlocks: the switch on block.Type.
ParseBlock(bd, block) ==
    CASE block.Type = "lifecycle" -> parseLifecycle(bd, block.Body)
      [] block.Type = "dynamic" ->
            IF Len(block.Labels) = 1
            THEN parseDynamicBlock(bd, block.Body, block.Labels[1])
            ELSE bd
      [] OTHER ->
            [bd EXCEPT !.staticBlocks = (block.Type :> ParseSyntaxBody(block.Body)) @@ @]

\* func (bd *BlockData) ParseBlocks(body *hclsyntax.Body), on the blocks still to visit.
RECURSIVE ParseBlocks(_, _)
ParseBlocks(bd, blocks) ==
    IF blocks = <<>> THEN bd
    ELSE ParseBlocks(ParseBlock(bd, Head(blocks)), Tail(blocks))

\* func ParseSyntaxBody(body *hclsyntax.Body) *ParsedBlock
ParseSyntaxBody(b) == ParseBlocks(ParseAttributes(NewBlockData, b), b.Blocks)

(***************************************************************************)
(* The recursive validator                                                 *)
(***************************************************************************)

\* One active call of (bd *BlockData) Validate(t, resourceType, path, schema,
\* parentIgnore, findings) with its locals: ignore, and the keys the two range
\* loops have not visited yet.
Frame(bd, sch, path, parentIgnore) ==
    [bd |-> bd, schema |-> sch, path |-> path, parentIgnore |-> parentIgnore,
     ignore |-> NilSlice, at |-> "call", attrsLeft |-> {}, blocksLeft |-> {}]

\* History record of one Validate call: where, on what, against what, the contents
\* of parentIgnore on entry and the contents of ignore once computed (empty when
\* the call returned at the nil check).
Call(path, bd, sch, parentIgnore, ignore) ==
    [path |-> path, bd |-> bd, schema |-> sch, parentIgnore |-> parentIgnore,
     ignore |-> ignore]

\* History record of one outermost call: the resource and the length of the
\* collector when the call was made.
Run(rt, bd, sch, at) == [Type |-> rt, data |-> bd, schema |-> sch, at |-> at]

\* History record of the CreateOrUpdateIssue calls: how many were made, and for
\* the last one the issue number findExistingIssue returned and the request
\* that followed ("none" before any call and when the call returned at once).
Sunk(n, found, request) == [calls |-> n, found |-> found, request |-> request]

NoCall == Sunk(0, 0, "none")

\* func NewMulReconciler() *MulReconcilerImpl: no input, no results, total 0.
NewMulReconciler == [input |-> "", results |-> <<>>, total |-> 0]

Top == stack[Len(stack)]

SetTop(f) == [stack EXCEPT ![Len(stack)] = f]

\* Mutant of SchemaAbsent: the nil check left out.
SchemaAbsentNever(sch) == FALSE

\* if schema == nil { return }
SchemaAbsent(sch) == sch.IsNil

\* Mutant of AttrSkipped: the computed flag not consulted.
AttrSkippedIgnoreOnly(attr, ignore, name) == contains(ignore, name)

\* if attr.Computed || contains(ignore, name) { continue }
AttrSkipped(attr, ignore, name) == attr.Computed \/ contains(ignore, name)

\* !bd.properties[name]
PropertyAbsent(bd, name) == name \notin bd.properties

\* Mutant of MissingAttribute: every missing attribute reported as required.
MissingAttributeAlwaysRequired(rt, path, name, attr) ==
    ValidationFinding(rt, path, name, TRUE, FALSE)

\* ValidationFinding{ResourceType: resType, Path: path, Name: name, Required: attr.Required, IsBlock: false}
MissingAttribute(rt, path, name, attr) ==
    ValidationFinding(rt, path, name, attr.Required, FALSE)

\* Mutant of BlockSkipped: the exclusion list not consulted for block types.
BlockSkippedTimeoutsOnly(ignore, name) == name = "timeouts"

\* Mutant of BlockSkipped: "timeouts" treated like any other block type.
BlockSkippedNoTimeouts(ignore, name) == contains(ignore, name)

\* if name == "timeouts" || contains(ignore, name) { continue }
BlockSkipped(ignore, name) == name = "timeouts" \/ contains(ignore, name)

\* static == nil && dynamic == nil
NoChild(bd, name) ==
    name \notin DOMAIN bd.staticBlocks /\ name \notin DOMAIN bd.dynamicBlocks

\* Mutant of MissingBlock: required only from two items on.
MissingBlockAboveOne(rt, path, name, blockType) ==
    ValidationFinding(rt, path, name, blockType.MinItems > 1, TRUE)

\* ValidationFinding{..., Required: blockType.MinItems > 0, IsBlock: true}
MissingBlock(rt, path, name, blockType) ==
    ValidationFinding(rt, path, name, blockType.MinItems > 0, TRUE)

\* Mutant of Target: the dynamic child preferred.
TargetDynamicFirst(bd, name) ==
    IF name \in DOMAIN bd.dynamicBlocks THEN bd.dynamicBlocks[name]
    ELSE bd.staticBlocks[name]

\* target := static; if target == nil { target = dynamic }
Target(bd, name) ==
    IF name \in DOMAIN bd.staticBlocks THEN bd.staticBlocks[name]
    ELSE bd.dynamicBlocks[name]

\* Mutant of NewPath: the name joined to the root instead of the current path.
NewPathFromRoot(path, name) == "root" \o "." \o name

\* newPath := fmt.Sprintf("%s.%s", path, name)
NewPath(path, name) == path \o "." \o name

\* The schema node handed to the recursive call: blockType.Block.
NestedSchema(blockType) == blockType.Block

\* Mutant of ChildIgnore: the caller's list handed down with its spare capacity,
\* ignore[:cap(ignore)].
ChildIgnoreWhole(f) == [arr |-> f.ignore.arr, len |-> Cap(heap, f.ignore)]

\* Mutant of ChildIgnore: the caller's own list handed down unextended.
ChildIgnoreParent(f) == f.parentIgnore

\* The exclusion list handed to the recursive call: ignore.
ChildIgnore(f) == f.ignore

\* Mutant of Collect: a finding equal to one already collected is not added.
CollectOnce(fs, f) == IF \E i \in 1..Len(fs) : fs[i] = f THEN fs ELSE Append(fs, f)

\* Mutant of Collect: the collector started afresh with the finding.
CollectFresh(fs, f) == <<f>>

\* Mutant of Collect: the finding put in front of those collected so far.
CollectFirst(fs, f) == <<f>> \o fs

\* *findings = append(*findings, ValidationFinding{...})
Collect(fs, f) == Append(fs, f)

\* The call returns: its frame is popped; the outermost return ends the walk.
Return ==
    /\ stack' = SubSeq(stack, 1, Len(stack) - 1)
    /\ pc' = IF Len(stack) = 1 THEN "done" ELSE pc

\* res.data.Validate(t, res.Type, "root", resourceSchema.Block, nil, &findings)
TestValidate ==
    /\ pc = "ready"
    /\ stack' = <<Frame(data, schema, "root", ancestorIgnore)>>
    /\ pc' = "running"
    /\ runs' = Append(runs, Run(resType, data, schema, Len(findings)))
    /\ UNCHANGED <<body, resType, data, schema, ancestorIgnore, heap, findings, pending, issues, sink,
                 report, safe, mr, err, calls>>

\* Validate up to the call of validateAttributes: the nil check and
\* ignore := append(parentIgnore, bd.ignoreChanges...)
Validate ==
    /\ pc = "running"
    /\ Top.at = "call"
    /\ LET ignore == AppendSlice(heap, Top.parentIgnore, Top.bd.ignoreChanges)
           after == AppendHeap(heap, Top.parentIgnore, Top.bd.ignoreChanges)
       IN IF SchemaAbsent(Top.schema)
          THEN /\ Return
               /\ heap' = heap
               /\ calls' = calls \cup {Call(Top.path, Top.bd, Top.schema,
                                          Elems(heap, Top.parentIgnore), <<>>)}
          ELSE IF Top.schema.IsNil
          THEN \* schema.Attributes dereferences a nil pointer
               /\ pc' = "panic"
               /\ UNCHANGED <<heap, stack, calls>>
          ELSE /\ heap' = after
               /\ stack' = SetTop([Top EXCEPT !.ignore = ignore,
                                              !.at = "attrs",
                                              !.attrsLeft = DOMAIN Top.schema.Attributes])
               /\ pc' = pc
               /\ calls' = calls \cup
                            {Call(Top.path, Top.bd, Top.schema,
                                  Elems(heap, Top.parentIgnore), Elems(after, ignore))}
    /\ UNCHANGED <<body, resType, data, schema, ancestorIgnore, findings, pending, issues, sink,
                 report, safe, mr, err, runs>>

\* One iteration of for name, attr := range schema.Attributes; when the map is
\* exhausted validateAttributes returns and validateBlocks is called.
validateAttributes ==
    /\ pc = "running"
    /\ Top.at = "attrs"
    /\ IF Top.attrsLeft = {}
       THEN /\ stack' = SetTop([Top EXCEPT !.at = "blocks",
                                           !.blocksLeft = DOMAIN Top.schema.BlockTypes])
            /\ findings' = findings
       ELSE \E name \in Top.attrsLeft :
            LET attr == Top.schema.Attributes[name]
                ignore == Elems(heap, Top.ignore)
            IN /\ stack' = SetTop([Top EXCEPT !.attrsLeft = @ \ {name}])
               /\ findings' =
                    IF ~AttrSkipped(attr, ignore, name) /\ PropertyAbsent(Top.bd, name)
                    THEN Collect(findings, MissingAttribute(resType, Top.path, name, attr))
                    ELSE findings
    /\ UNCHANGED <<body, resType, data, schema, ancestorIgnore, heap, pc, pending, issues, sink,
                 report, safe, mr, err,
                 calls, runs>>

\* One iteration of for name, blockType := range schema.BlockTypes; when the map
\* is exhausted validateBlocks and then Validate return.
validateBlocks ==
    /\ pc = "running"
    /\ Top.at = "blocks"
    /\ IF Top.blocksLeft = {}
       THEN Return /\ findings' = findings
       ELSE \E name \in Top.blocksLeft :
            LET blockType == Top.schema.BlockTypes[name]
                ignore == Elems(heap, Top.ignore)
                rest == [Top EXCEPT !.blocksLeft = @ \ {name}]
            IN IF BlockSkipped(ignore, name)
               THEN /\ stack' = SetTop(rest)
                    /\ UNCHANGED <<findings, pc>>
               ELSE IF NoChild(Top.bd, name)
               THEN /\ stack' = SetTop(rest)
                    /\ findings' = Collect(findings,
                                           MissingBlock(resType, Top.path, name, blockType))
                    /\ pc' = pc
               ELSE /\ stack' = Append(SetTop(rest),
                                       Frame(Target(Top.bd, name), NestedSchema(blockType),
                                             NewPath(Top.path, name), ChildIgnore(Top)))
                    /\ UNCHANGED <<findings, pc>>
    /\ UNCHANGED <<body, resType, data, schema, ancestorIgnore, heap, pending, issues, sink,
                 report, safe, mr, err,
                 calls, runs>>

\* The state when TestValidateTerraformSchema reaches the Validate call of one
\* resource d with schema block s, the caller's parentIgnore held in array a.
InitWith(d, s, a) ==
    /\ body = Body(<<>>, <<>>)   \* the tree is given, no body is read
    /\ resType \in ResourceTypes
    /\ data = d
    /\ schema = s
    /\ heap = IF a = <<>> THEN <<>> ELSE <<a>>
    /\ ancestorIgnore = IF a = <<>> THEN NilSlice ELSE [arr |-> 1, len |-> AncestorLen(a)]
    /\ stack = <<>>
    /\ findings = <<>>
    /\ pc = "ready"
    /\ pending = <<>>
    /\ issues = <<>>
    /\ sink = NoCall
    /\ report = <<>>
    /\ safe = <<>>
    /\ mr = NewMulReconciler
    /\ err = <<>>
    /\ calls = {}
    /\ runs = <<>>

Init ==
    \/ \E d \in FlatData, s \in FlatSchemas, a \in AncestorArrays : InitWith(d, s, a)
    \/ \E d \in PlainData, s \in PlainSchemas : InitWith(d, s, <<>>)
    \/ \E d \in NestedData, s \in NestedSchemas : InitWith(d, s, <<>>)
    \/ \E d \in DeepData2, s \in DeepSchemas2, a \in AncestorArrays : InitWith(d, s, a)

Next == TestValidate \/ Validate \/ validateAttributes \/ validateBlocks

Spec == Init /\ [][Next]_vars

(***************************************************************************)
(* The walk over a block with two nested block types, for what concerns    *)
(* the order of the findings and the exclusion lists of sibling blocks.    *)
(***************************************************************************)

SiblingNames == {"ip_rule", "rule"}

SiblingLists == SeqsUpTo({"tags"} \cup SiblingNames, MaxIgnore)

\* A "rule" block: no attribute set, any exclusion list.
RuleData == Leaves({{}}, SiblingLists)

\* An "ip_rule" block: the same, with or without a "rule" block of its own.
IpRuleData ==
    {BlockData({}, s, <<>>, i) : s \in OptChild("rule", {NewBlockData}), i \in SiblingLists}

\* The root: "ip_rule" and "rule" as literal blocks or not, any exclusion list.
SiblingData ==
    {BlockData({}, s1 @@ s2, <<>>, i) :
        s1 \in OptChild("ip_rule", IpRuleData),
        s2 \in OptChild("rule", RuleData),
        i \in SiblingLists}

\* Every block has the required attribute "tags" and the computed "sku"; the
\* root nests "ip_rule" and "rule", and "ip_rule" nests "rule".
SiblingSchema ==
    SchemaBlock(DeepAttrs,
                ("ip_rule" :> SchemaBlockType(1,
                     SchemaBlock(DeepAttrs,
                                 "rule" :> SchemaBlockType(0, SchemaBlock(DeepAttrs, <<>>)))))
                @@ ("rule" :> SchemaBlockType(0, SchemaBlock(DeepAttrs, <<>>))))

InitSiblings == \E d \in SiblingData, a \in AncestorArrays : InitWith(d, SiblingSchema, a)

SpecSiblings == InitSiblings /\ [][Next]_vars

(***************************************************************************)
(* The pipeline from a configuration file: ParseMainFile builds the tree   *)
(* of a resource body, then the walk runs against one schema.              *)
(***************************************************************************)

\* Elements of an ignore_changes collection: a quoted name or anything else.
ElemValues == {StringVal("tags"), NumberVal}

ElemSeqs == SeqsUpTo(ElemValues, MaxElems)

\* The elements of a cty list, set or map have one type; those of a set are distinct.
Homogeneous(es) == \A i, j \in 1..Len(es) : es[i].ty = es[j].ty

Distinct(es) == \A i, j \in 1..Len(es) : i # j => es[i] # es[j]

\* What ignore_changes can evaluate to: a string, a number, a tuple (the
\* bracketed literal), or a list, set or map (a conditional unifies its tuple or
\* object results into these).
IgnoreValues ==
    {StringVal("tags"), NumberVal}
    \cup {Value("tuple", "", es) : es \in ElemSeqs}
    \cup {Value(ty, "", es) : ty \in {"list", "map"}, es \in {e \in ElemSeqs : Homogeneous(e)}}
    \cup {Value("set", "", es) : es \in {e \in ElemSeqs : Homogeneous(e) /\ Distinct(e)}}

\* An expression that needs variables evaluates to cty.DynamicVal without a context.
DynamicVal == Value("dynamic", "", <<>>)

LifecycleBlocks ==
    {Block("lifecycle", <<>>, Body(a, <<>>)) :
        a \in {<<>>, "prevent_destroy" :> Value("bool", "", <<>>)}
              \cup {"ignore_changes" :> v : v \in IgnoreValues}}

LeafBodies == {Body([n \in p |-> DynamicVal], <<>>) : p \in SUBSET {"tags"}}

\* A lifecycle block written inside a nested block.
NestedLifecycles ==
    {Block("lifecycle", <<>>, Body("ignore_changes" :> Value(ty, "", <<StringVal("tags")>>), <<>>)) :
        ty \in {"tuple", "list"}}

\* A literal "rule" block written inside a nested block.
RuleBlocks == {Block("rule", <<>>, b) : b \in LeafBodies}

\* Literal blocks: "ip_rule", bare or with a lifecycle block or a "rule" block
\* of its own, and "timeouts".
StaticBlocks ==
    {Block("ip_rule", <<>>, Body(b.Attributes, l)) :
        b \in LeafBodies,
        l \in {<<>>, <<Block("rule", <<>>, Body("tags" :> DynamicVal, <<>>))>>}
              \cup {<<lc>> : lc \in NestedLifecycles}}
    \cup {Block("timeouts", <<>>, Body("create" :> StringVal("30m"), <<>>))}

\* A dynamic block: its labels, its own attributes besides for_each, its blocks.
Dynamic(labels, attributes, blocks) ==
    Block("dynamic", labels, Body(("for_each" :> DynamicVal) @@ attributes, blocks))

\* What a content block can hold: one attribute, and nothing else, a lifecycle
\* block, a literal "rule" block or a dynamic "rule" block.
ShapeBodies ==
    {Body(n :> DynamicVal, l) :
        n \in AttrNames,
        l \in {<<>>,
               <<Block("lifecycle", <<>>,
                       Body("ignore_changes" :> Value("list", "", <<StringVal("tags")>>), <<>>))>>,
               <<Dynamic(<<"rule">>, <<>>, <<Block("content", <<>>, Body("tags" :> DynamicVal, <<>>))>>)>>}
              \cup {<<r>> : r \in RuleBlocks}}

\* dynamic blocks labelled "ip_rule" with a content block; with a content block
\* that is not the first child, or not the only content block; without a content
\* block; and with no label or two.
DynamicBlocks ==
    {Dynamic(<<"ip_rule">>, <<>>, <<Block("content", <<>>, c)>>) : c \in ShapeBodies}
    \cup {Dynamic(<<"ip_rule">>, <<>>,
                  <<Block("rule", <<>>, Body(<<>>, <<>>)), Block("content", <<>>, Body("tags" :> DynamicVal, <<>>))>>),
          Dynamic(<<"ip_rule">>, <<>>,
                  <<Block("content", <<>>, Body("tags" :> DynamicVal, <<>>)),
                    Block("content", <<>>, Body("sku" :> DynamicVal, <<>>))>>)}
    \cup {Dynamic(<<"ip_rule">>, b.Attributes, <<>>) : b \in LeafBodies}
    \cup {Dynamic(labels, <<>>, <<>>) : labels \in {<<>>, <<"ip_rule", "rule">>}}

\* Resource bodies: any lifecycle blocks; or any literal and dynamic blocks.
LifecycleBodies ==
    {Body(b.Attributes, blocks) :
        b \in LeafBodies, blocks \in SeqsUpTo(LifecycleBlocks, MaxBlocks)}

NestedBodies ==
    {Body(b.Attributes, blocks) :
        b \in LeafBodies, blocks \in SeqsUpTo(StaticBlocks \cup DynamicBlocks, MaxBlocks)}

\* The schema block of the resource type, as the provider schema file gives it.
BuildSchema ==
    SchemaBlock([n \in AttrNames |-> IF n = "tags" THEN RequiredAttr ELSE OptionalAttr],
                ("ip_rule" :>
                    SchemaBlockType(1,
                        SchemaBlock("tags" :> RequiredAttr,
                                    "rule" :> SchemaBlockType(0, SchemaBlock("tags" :> RequiredAttr, <<>>)))))
                @@ ("timeouts" :> SchemaBlockType(0, TimeoutsSchema)))

\* func (p *DefaultHCLParser) ParseMainFile: for one resource block,
\* parsedBlock := ParseSyntaxBody(blk.Body); res.data = parsedBlock.data
ParseMainFile ==
    /\ pc = "parse"
    /\ data' = ParseSyntaxBody(body)
    /\ pc' = "ready"
    /\ UNCHANGED <<body, resType, schema, ancestorIgnore, heap, stack, findings, pending,
                   issues, sink, report, safe, mr, err, calls, runs>>

InitBuild ==
    /\ \/ body \in LifecycleBodies
       \/ body \in NestedBodies
    /\ resType \in ResourceTypes
    /\ data = NewBlockData
    /\ schema = BuildSchema
    /\ heap = <<>>
    /\ ancestorIgnore = NilSlice
    /\ stack = <<>>
    /\ findings = <<>>
    /\ pc = "parse"
    /\ pending = <<>>
    /\ issues = <<>>
    /\ sink = NoCall
    /\ report = <<>>
    /\ safe = <<>>
    /\ mr = NewMulReconciler
    /\ err = <<>>
    /\ calls = {}
    /\ runs = <<>>

NextBuild ==
    ParseMainFile \/ TestValidate \/ Validate \/ validateAttributes \/ validateBlocks

SpecBuild == InitBuild /\ [][NextBuild]_vars

(***************************************************************************)
(* The loop of TestValidateTerraformSchema over the resources of a file,   *)
(* every walk appending to the one collector.                              *)
(***************************************************************************)

\* One resource of the loop: res.Type, res.data, whether the provider schema has
\* an entry for the type (resourceSchema != nil) and that entry's Block.
Resource(type, bd, found, sch) ==
    [Type |-> type, data |-> bd, found |-> found, schema |-> sch]

RunKids == {BlockData({}, <<>>, <<>>, i) : i \in {<<>>, <<"tags">>}}

RunData ==
    {BlockData(p, s, <<>>, i) :
        p \in SUBSET {"tags"}, s \in OptChild("ip_rule", RunKids), i \in {<<>>, <<"tags">>}}

RunSchemas ==
    {SchemaBlock(DeepAttrs, "ip_rule" :> SchemaBlockType(1, k)) :
        k \in DeepSchemas0 \cup {NilSchema}}

\* Resources with a schema entry, and one without.
RunResources ==
    {Resource(t, d, TRUE, sch) : t \in ResourceTypes, d \in RunData, sch \in RunSchemas}
    \cup {Resource(t, NewBlockData, FALSE, NilSchema) : t \in ResourceTypes}

\* The parentIgnore every outermost call is given: nil, or one name in an array
\* with room for one more.
RunAncestors == {<<>>, <<"sku", "">>}

\* One iteration of for _, res := range resources, up to the Validate call: a
\* resource whose type has no schema entry is passed over.
NextResource ==
    /\ pc \in {"next", "done"}
    /\ pending # <<>>
    /\ pending' = Tail(pending)
    /\ IF Head(pending).found
       THEN /\ resType' = Head(pending).Type
            /\ data' = Head(pending).data
            /\ schema' = Head(pending).schema
            /\ pc' = "ready"
       ELSE UNCHANGED <<resType, data, schema, pc>>
    /\ UNCHANGED <<body, ancestorIgnore, heap, stack, findings, issues, sink,
                 report, safe, mr, err, calls, runs>>

InitResources ==
    /\ body = Body(<<>>, <<>>)
    /\ resType \in ResourceTypes
    /\ data = NewBlockData
    /\ schema = NilSchema
    /\ \E a \in RunAncestors :
          /\ heap = IF a = <<>> THEN <<>> ELSE <<a>>
          /\ ancestorIgnore = IF a = <<>> THEN NilSlice ELSE [arr |-> 1, len |-> AncestorLen(a)]
    /\ stack = <<>>
    /\ findings = <<>>
    /\ pc = "next"
    /\ pending \in SeqsUpTo(RunResources, MaxResources)
    /\ issues = <<>>
    /\ sink = NoCall
    /\ report = <<>>
    /\ safe = <<>>
    /\ mr = NewMulReconciler
    /\ err = <<>>
    /\ calls = {}
    /\ runs = <<>>

NextResources ==
    NextResource \/ TestValidate \/ Validate \/ validateAttributes \/ validateBlocks

SpecResources == InitResources /\ [][NextResources]_vars

(***************************************************************************)
(* The findings sink: GitHubIssueService.CreateOrUpdateIssue against the   *)
(* open issues of the repository.  Texts are strings, so that stripping,   *)
(* splitting and trimming are computed on characters.                      *)
(***************************************************************************)

\* const header = "### \n\n"
header == "### \n\n"

\* title := "Generated schema validation"
title == "Generated schema validation"

\* The backquote of the format strings, which a string of this notation cannot
\* hold, is written as a quote.
tick == "'"

\* sub occurs in str at position i.
IsAt(str, i, sub) ==
    i + Len(sub) - 1 <= Len(str) /\ SubSeq(str, i, i + Len(sub) - 1) = sub

\* strings.ReplaceAll(str, old, new), from position i on.
RECURSIVE ReplaceFrom(_, _, _, _)
ReplaceFrom(str, i, old, new) ==
    IF i > Len(str) THEN ""
    ELSE IF IsAt(str, i, old) THEN new \o ReplaceFrom(str, i + Len(old), old, new)
    ELSE SubSeq(str, i, i) \o ReplaceFrom(str, i + 1, old, new)

\* strings.ReplaceAll(f.Path, "root.", "")
CleanPath(path) == ReplaceFrom(path, 1, "root.", "")

\* key := fmt.Sprintf("%s|%s|%s|%v", f.ResourceType, cleanPath, f.Name, f.IsBlock)
Key(f) ==
    f.ResourceType \o "|" \o CleanPath(f.Path) \o "|" \o f.Name \o "|"
        \o (IF f.IsBlock THEN "true" ELSE "false")

\* uniqueFindings after the deduplication loop: the last finding of every key.
uniqueFindings(fs) ==
    [k \in {Key(fs[i]) : i \in 1..Len(fs)} |->
        fs[CHOOSE i \in 1..Len(fs) :
              Key(fs[i]) = k /\ \A j \in 1..Len(fs) : Key(fs[j]) = k => j <= i]]

\* fmt.Fprintf(&newBody, "`%s`: Missing %s %s `%s` in %s\n\n", ...)
Line(f) ==
    tick \o f.ResourceType \o tick \o ": Missing "
        \o (IF f.Required THEN "required" ELSE "optional") \o " "
        \o (IF f.IsBlock THEN "block" ELSE "property") \o " "
        \o tick \o f.Name \o tick \o " in " \o CleanPath(f.Path) \o "\n\n"

\* The orders in which for _, f := range uniqueFindings can visit the keys.
Orders(keys) ==
    {o \in [1..Cardinality(keys) -> keys] : \A i, j \in DOMAIN o : o[i] = o[j] => i = j}

\* newBody: the header, then one line per entry of uniqueFindings in the order visited.
RECURSIVE Lines(_, _)
Lines(order, unique) ==
    IF order = <<>> THEN "" ELSE Line(unique[Head(order)]) \o Lines(Tail(order), unique)

NewBody(order, unique) == header \o Lines(order, unique)

\* strings.SplitN(str, sep, 2)[0]: what precedes the first sep, or all of str.
Before(str, sep) ==
    LET at == {i \in 1..Len(str) : IsAt(str, i, sep)}
    IN IF at = {} THEN str
       ELSE SubSeq(str, 1, (CHOOSE i \in at : \A j \in at : i <= j) - 1)

\* strings.TrimSpace(str)
TrimSpace(str) ==
    LET ink == {i \in 1..Len(str) : SubSeq(str, i, i) \notin {" ", "\n", "\t", "\r"}}
    IN IF ink = {} THEN ""
       ELSE SubSeq(str, CHOOSE i \in ink : \A j \in ink : i <= j,
                        CHOOSE i \in ink : \A j \in ink : j <= i)

\* One open issue as the list request returns it.
Issue(number, t, b) == [Number |-> number, Title |-> t, Body |-> b]

\* Mutant of findExistingIssue: the open issue never found.
findExistingIssueNone(list, t) == [Number |-> 0, Body |-> ""]

\* func (g *GitHubIssueService) findExistingIssue(title string): the number and
\* body of the first open issue with the title, number 0 when there is none.
findExistingIssue(list, t) ==
    LET hits == {i \in 1..Len(list) : list[i].Title = t}
    IN IF hits = {} THEN [Number |-> 0, Body |-> ""]
       ELSE LET first == CHOOSE i \in hits : \A j \in hits : i <= j
            IN [Number |-> list[first].Number, Body |-> list[first].Body]

\* func (g *GitHubIssueService) updateIssue(issueNumber int, body string): PATCH
updateIssue(list, number, b) ==
    [i \in DOMAIN list |->
        IF list[i].Number = number THEN [list[i] EXCEPT !.Body = b] ELSE list[i]]

\* func (g *GitHubIssueService) createIssue(title, body string): POST; the new
\* issue gets the next number and is listed first.
createIssue(list, t, b) ==
    LET used == {list[i].Number : i \in 1..Len(list)}
        number == IF used = {} THEN 1 ELSE (CHOOSE n \in used : \A m \in used : m <= n) + 1
    IN <<Issue(number, t, b)>> \o list

\* The findings a run of the test can hand over: a missing attribute at the root
\* and in a nested block, and a missing block.
SinkFindings ==
    {ValidationFinding(t, "root", "tags", TRUE, FALSE) : t \in ResourceTypes}
    \cup {ValidationFinding(t, "root.ip_rule", "tags", TRUE, FALSE) : t \in ResourceTypes}
    \cup {ValidationFinding(t, "root", "ip_rule", FALSE, TRUE) : t \in ResourceTypes}

SinkFindingLists == SeqsUpTo(SinkFindings, MaxFindings)

\* The open issues before the first call: none; another issue; the titled issue
\* left by an earlier run under a note someone added, and another issue; the
\* titled issue with a body written by hand.
SinkRepos ==
    {<<>>,
     <<Issue(7, "Bump provider version", "see changelog")>>,
     <<Issue(9, title, "Owner: platform team\n\n" \o header
                       \o "'azurerm_subnet': Missing optional block 'delegation' in root\n\n"),
       Issue(7, "Bump provider version", "see changelog")>>,
     <<Issue(3, title, "to be filled in")>>}

\* func (g *GitHubIssueService) CreateOrUpdateIssue(findings []ValidationFinding),
\* called with the findings of one run of the test, every request succeeding.
CreateOrUpdateIssue ==
    /\ sink.calls < MaxCalls
    /\ \E fs \in SinkFindingLists :
          /\ findings' = fs
          /\ IF Len(fs) = 0
             THEN /\ issues' = issues
                  /\ sink' = Sunk(sink.calls + 1, 0, "none")
             ELSE \E order \in Orders(DOMAIN uniqueFindings(fs)) :
                  LET newBody == NewBody(order, uniqueFindings(fs))
                      found == findExistingIssue(issues, title)
                      finalBody ==
                          IF found.Number > 0
                          THEN TrimSpace(Before(found.Body, header)) \o "\n\n" \o newBody
                          ELSE newBody
                  IN IF found.Number > 0
                     THEN /\ issues' = updateIssue(issues, found.Number, finalBody)
                          /\ sink' = Sunk(sink.calls + 1, found.Number, "PATCH")
                     ELSE /\ issues' = createIssue(issues, title, finalBody)
                          /\ sink' = Sunk(sink.calls + 1, found.Number, "POST")
    /\ UNCHANGED <<body, resType, data, schema, ancestorIgnore, heap, stack, pc, pending,
                   report, safe, mr, err, calls, runs>>

InitSink ==
    /\ body = Body(<<>>, <<>>)
    /\ resType \in ResourceTypes
    /\ data = NewBlockData
    /\ schema = NilSchema
    /\ heap = <<>>
    /\ ancestorIgnore = NilSlice
    /\ stack = <<>>
    /\ findings = <<>>
    /\ pc = "done"
    /\ pending = <<>>
    /\ issues \in SinkRepos
    /\ sink = NoCall
    /\ report = <<>>
    /\ safe = <<>>
    /\ mr = NewMulReconciler
    /\ err = <<>>
    /\ calls = {}
    /\ runs = <<>>

NextSink == CreateOrUpdateIssue

SpecSink == InitSink /\ [][NextSink]_vars

(***************************************************************************)
(* Vocabulary of the properties                                            *)
(***************************************************************************)

\* The blocks visited: the calls that passed the nil check.
Visited == {c \in calls : ~c.schema.IsNil}

InList(list, n) == n \in {list[i] : i \in DOMAIN list}

HasPrefix(str, p) == Len(str) >= Len(p) /\ SubSeq(str, 1, Len(p)) = p

HasSuffix(str, p) ==
    Len(str) >= Len(p) /\ SubSeq(str, Len(str) - Len(p) + 1, Len(str)) = p

\* path is p or a path below p.
AtOrBelow(path, p) == path = p \/ HasPrefix(path, p \o ".")

\* The dot-separated segments of a path.
RECURSIVE Split(_)
Split(str) ==
    LET dots == {i \in 1..Len(str) : SubSeq(str, i, i) = "."} IN
    IF dots = {} THEN <<str>>
    ELSE LET d == CHOOSE i \in dots : \A j \in dots : j <= i
         IN Append(Split(SubSeq(str, 1, d - 1)), SubSeq(str, d + 1, Len(str)))

FindingIdx == 1..Len(findings)

\* No call at path is active any more / its attribute loop has ended.
Returned(path) == \A i \in 1..Len(stack) : stack[i].path # path

AttrPassDone(path) == \A i \in 1..Len(stack) : stack[i].path = path => stack[i].at = "blocks"

\* The list given to the outermost call, as it was on entry.
RootArg == IF \E c \in calls : c.path = "root"
           THEN (CHOOSE c \in calls : c.path = "root").parentIgnore
           ELSE <<>>

\* The ignoreChanges of the first i active blocks, outermost first, concatenated.
RECURSIVE IgnoreChain(_)
IgnoreChain(i) == IF i = 0 THEN <<>> ELSE IgnoreChain(i - 1) \o stack[i].bd.ignoreChanges

ChildrenNamed(bd, n) ==
    {bd.staticBlocks[k] : k \in DOMAIN bd.staticBlocks \cap {n}}
    \cup {bd.dynamicBlocks[k] : k \in DOMAIN bd.dynamicBlocks \cap {n}}

\* The schema attributes a visited block must be reported for, and the block types.
ExpectedAttrs(bd, sch, excl) ==
    {n \in DOMAIN sch.Attributes :
        ~sch.Attributes[n].Computed /\ ~InList(excl, n) /\ n \notin bd.properties}

ExpectedBlocks(bd, sch, excl) ==
    {n \in DOMAIN sch.BlockTypes :
        /\ n # "timeouts"
        /\ ~InList(excl, n)
        /\ n \notin DOMAIN bd.staticBlocks
        /\ n \notin DOMAIN bd.dynamicBlocks}

AttrFindingIdx(path) == {i \in FindingIdx : findings[i].Path = path /\ ~findings[i].IsBlock}

BlockFindingIdx(path) == {i \in FindingIdx : findings[i].Path = path /\ findings[i].IsBlock}

(***************************************************************************)
(* Properties of the validator                                             *)
(***************************************************************************)

\* C1: at every visited block, root or nested, no finding at the block's path
\* names an attribute its schema marks computed, present or not, whatever the
\* attribute's required and optional flags.
C1_ComputedNeverReported ==
    \A c \in Visited : \A n \in DOMAIN c.schema.Attributes :
        c.schema.Attributes[n].Computed =>
            \A i \in FindingIdx : ~(findings[i].Path = c.path /\ findings[i].Name = n)

C1_Witness ==
    /\ pc = "done"
    /\ \E c \in Visited :
         /\ c.path # "root"
         /\ "tags" \in DOMAIN c.schema.Attributes
         /\ c.schema.Attributes["tags"].Computed
         /\ "tags" \notin c.bd.properties
         /\ ~InList(c.ignore, "tags")
    /\ Len(findings) > 0

\* C2: the exclusion list in force at every active block is the outermost call's
\* parentIgnore followed by the ignoreChanges of the blocks on the path from the
\* root down to and including the block itself, and no finding at a visited
\* block's path names a member of its list, attribute or block type.
C2_EffectiveExclusion ==
    /\ \A i \in 1..Len(stack) :
         /\ i = 1 => stack[i].bd = data
         /\ i > 1 => \E n \in BlockNames : stack[i].bd \in ChildrenNamed(stack[i - 1].bd, n)
         /\ stack[i].at # "call" =>
              Elems(heap, stack[i].ignore) = RootArg \o IgnoreChain(i)
    /\ \A c \in Visited :
         /\ c.ignore = c.parentIgnore \o c.bd.ignoreChanges
         /\ \A k \in DOMAIN c.ignore : \A i \in FindingIdx :
                ~(findings[i].Path = c.path /\ findings[i].Name = c.ignore[k])

C2_Witness ==
    /\ pc = "done"
    /\ InList(data.ignoreChanges, "tags")
    /\ "tags" \notin data.properties
    /\ ~schema.IsNil
    /\ "tags" \in DOMAIN schema.Attributes
    /\ schema.Attributes["tags"].Required
    /\ ~schema.Attributes["tags"].Computed
    /\ \E c \in Visited :
         /\ c.path = "root.ip_rule.ip_rule"
         /\ c.bd.ignoreChanges = <<>>
         /\ c.schema.Attributes["tags"].Required
         /\ "tags" \notin c.bd.properties
         /\ Len(c.ignore) > 1

\* C3: once the attribute loop of a visited block has ended, the findings with
\* IsBlock = false at its path are exactly one for each schema attribute that is
\* not computed, not excluded and absent from properties, each with the
\* attribute's required flag; before that they are among those.
C3_AttributePass ==
    \A c \in Visited :
        LET expected == {ValidationFinding(resType, c.path, n,
                                           c.schema.Attributes[n].Required, FALSE) :
                            n \in ExpectedAttrs(c.bd, c.schema, c.ignore)}
            got == AttrFindingIdx(c.path)
        IN /\ {findings[i] : i \in got} \subseteq expected
           /\ AttrPassDone(c.path) =>
                /\ {findings[i] : i \in got} = expected
                /\ Cardinality(got) = Cardinality(expected)

\* The round trip: attributes a and b present, schema attributes a, b, c.
C3_Witness ==
    /\ pc = "done"
    /\ data.properties = {"a", "b"}
    /\ ~schema.IsNil
    /\ DOMAIN schema.Attributes = {"a", "b", "c"}
    /\ Len(findings) = 1
    /\ findings[1].Name = "c"
    /\ ~findings[1].IsBlock
    /\ findings[1].Required = schema.Attributes["c"].Required

\* C4: once a visited block has returned, each schema block type other than
\* "timeouts" that is not excluded and has neither a static nor a dynamic child
\* has exactly one finding with IsBlock = true at the block's path, required
\* exactly when min_items > 0; and there is never a call or a finding at or
\* below the path of such a name.
C4_MissingChild ==
    \A c \in Visited : \A n \in ExpectedBlocks(c.bd, c.schema, c.ignore) :
        LET got == {i \in BlockFindingIdx(c.path) : findings[i].Name = n} IN
        /\ Cardinality(got) <= 1
        /\ Returned(c.path) => Cardinality(got) = 1
        /\ \A i \in got :
              /\ findings[i].Required = (c.schema.BlockTypes[n].MinItems > 0)
              /\ findings[i].ResourceType = resType
        /\ \A d \in calls : ~AtOrBelow(d.path, c.path \o "." \o n)
        /\ \A i \in 1..Len(stack) : ~AtOrBelow(stack[i].path, c.path \o "." \o n)
        /\ \A i \in FindingIdx : ~AtOrBelow(findings[i].Path, c.path \o "." \o n)

C4_Witness ==
    /\ pc = "done"
    /\ \E c \in Visited : \E i \in FindingIdx :
         /\ c.path = "root.ip_rule"
         /\ "ip_rule" \in ExpectedBlocks(c.bd, c.schema, c.ignore)
         /\ c.schema.BlockTypes["ip_rule"].MinItems > 0
         /\ findings[i] = ValidationFinding(resType, "root.ip_rule", "ip_rule", TRUE, TRUE)

\* C5: the call for a block type reached from a visited block is made on the
\* static child whenever there is one and on the dynamic child only otherwise;
\* with both present, the findings at the child's path are those of the static
\* child's properties, blocks and ignoreChanges.
C5_StaticPreferred ==
    \A u \in Visited : \A n \in DOMAIN u.schema.BlockTypes : \A c \in calls :
        c.path = u.path \o "." \o n =>
            /\ c.bd = IF n \in DOMAIN u.bd.staticBlocks
                      THEN u.bd.staticBlocks[n] ELSE u.bd.dynamicBlocks[n]
            /\ (n \in DOMAIN u.bd.staticBlocks /\ n \in DOMAIN u.bd.dynamicBlocks
                   /\ ~c.schema.IsNil /\ Returned(c.path)) =>
                 LET st == u.bd.staticBlocks[n]
                     excl == u.ignore \o st.ignoreChanges
                 IN /\ {findings[i].Name : i \in AttrFindingIdx(c.path)}
                         = ExpectedAttrs(st, c.schema, excl)
                    /\ {findings[i].Name : i \in BlockFindingIdx(c.path)}
                         = ExpectedBlocks(st, c.schema, excl)

C5_Witness ==
    /\ pc = "done"
    /\ "ip_rule" \in DOMAIN data.staticBlocks
    /\ "ip_rule" \in DOMAIN data.dynamicBlocks
    /\ "tags" \notin data.staticBlocks["ip_rule"].properties
    /\ "tags" \in data.dynamicBlocks["ip_rule"].properties
    /\ \E i \in FindingIdx : findings[i].Path = "root.ip_rule" /\ findings[i].Name = "tags"

\* C6: no finding with IsBlock = true is named "timeouts" and no call is ever
\* made for a block type named "timeouts", at any level, whatever its min_items
\* and whether or not the body has such a block.
C6_TimeoutsSkipped ==
    /\ \A i \in FindingIdx : ~(findings[i].Name = "timeouts" /\ findings[i].IsBlock)
    /\ \A i \in 1..Len(stack) : ~HasSuffix(stack[i].path, ".timeouts")
    /\ \A c \in calls : ~HasSuffix(c.path, ".timeouts")

C6_Witness ==
    /\ pc = "done"
    /\ ~schema.IsNil
    /\ "timeouts" \in DOMAIN schema.BlockTypes
    /\ schema.BlockTypes["timeouts"].MinItems > 0
    /\ ~schema.BlockTypes["timeouts"].Block.IsNil
    /\ "timeouts" \notin DOMAIN data.staticBlocks
    /\ "timeouts" \notin DOMAIN data.dynamicBlocks
    /\ ~InList(data.ignoreChanges, "timeouts")

\* C7: a Validate call whose schema node is nil appends nothing and does not
\* panic, whatever the block and the exclusion list; there is no finding and no
\* further call at or below the path of such a call.
C7_NilSchemaSkipped ==
    /\ pc # "panic"
    /\ schema.IsNil => findings = <<>>
    /\ \A c \in calls : c.schema.IsNil =>
         /\ \A i \in FindingIdx : ~AtOrBelow(findings[i].Path, c.path)
         /\ \A d \in calls : AtOrBelow(d.path, c.path) => d = c
         /\ \A i \in 1..Len(stack) : ~HasPrefix(stack[i].path, c.path \o ".")

C7_Witness ==
    /\ pc = "done"
    /\ Len(findings) > 0
    /\ \E c \in calls :
         /\ c.schema.IsNil
         /\ c.path = "root.ip_rule"
         /\ c.bd.properties = {}
         /\ c.bd \in ChildrenNamed(data, "ip_rule")

\* C8: every finding's path is the path of a visited block whose schema lists the
\* finding's name; the path of every call is "root" followed by the dot-joined
\* names of a chain of schema block types, each with a static or dynamic child in
\* the body at its level, leading from the resource to the block of the call; a
\* present child that is not skipped is validated at path + "." + name and the
\* name itself is not reported at path.
C8_Paths ==
    /\ \A i \in FindingIdx : \E c \in Visited :
         /\ findings[i].Path = c.path
         /\ findings[i].Name \in DOMAIN c.schema.Attributes \cup DOMAIN c.schema.BlockTypes
    /\ \A c \in calls :
         LET seg == Split(c.path) IN
         /\ seg[1] = "root"
         /\ \E bds \in [1..Len(seg) -> {d.bd : d \in calls}] :
              \E schs \in [1..Len(seg) -> {d.schema : d \in calls}] :
                 /\ bds[1] = data /\ schs[1] = schema
                 /\ bds[Len(seg)] = c.bd /\ schs[Len(seg)] = c.schema
                 /\ \A k \in 2..Len(seg) :
                      /\ ~schs[k - 1].IsNil
                      /\ seg[k] \in DOMAIN schs[k - 1].BlockTypes
                      /\ schs[k] = schs[k - 1].BlockTypes[seg[k]].Block
                      /\ bds[k] \in ChildrenNamed(bds[k - 1], seg[k])
    /\ \A u \in Visited : \A n \in DOMAIN u.schema.BlockTypes :
         (ChildrenNamed(u.bd, n) # {} /\ n # "timeouts" /\ ~InList(u.ignore, n)) =>
            /\ \A i \in FindingIdx : ~(findings[i].Path = u.path /\ findings[i].Name = n)
            /\ Returned(u.path) => \E c \in calls : c.path = u.path \o "." \o n

C8_Witness ==
    /\ pc = "done"
    /\ "ip_rule" \in DOMAIN data.staticBlocks
    /\ ~schema.IsNil
    /\ "ip_rule" \in DOMAIN schema.BlockTypes
    /\ schema.BlockTypes["ip_rule"].MinItems = 0
    /\ \A i \in FindingIdx : findings[i].Name # "ip_rule" \/ findings[i].Path # "root"
    /\ \E i \in FindingIdx : findings[i].Path = "root.ip_rule"
    /\ \E i \in FindingIdx : findings[i].Path = "root.ip_rule.ip_rule"

(***************************************************************************)
(* Properties of the builder                                               *)
(***************************************************************************)

\* The names an ignore_changes value declares: the one name of a string, the
\* string elements of a list, set or tuple, none for any other value.
DeclaredNames(val) ==
    IF val.ty = "string" THEN <<val.str>>
    ELSE IF val.ty \in {"list", "set", "tuple"}
    THEN LET strs == SelectSeq(val.elems, LAMBDA v : v.ty = "string")
         IN [i \in 1..Len(strs) |-> strs[i].str]
    ELSE <<>>

\* The lifecycle blocks written directly in body b that set ignore_changes.
Lifecycles(b) ==
    {i \in 1..Len(b.Blocks) :
        /\ b.Blocks[i].Type = "lifecycle"
        /\ "ignore_changes" \in DOMAIN b.Blocks[i].Body.Attributes}

IgnoreChangesOf(block) == block.Body.Attributes["ignore_changes"]

\* Every name declared by a lifecycle block of body b is in bd.ignoreChanges.
Attached(b, bd) ==
    \A i \in Lifecycles(b) :
        \A n \in DOMAIN DeclaredNames(IgnoreChangesOf(b.Blocks[i])) :
            InList(bd.ignoreChanges, DeclaredNames(IgnoreChangesOf(b.Blocks[i]))[n])

\* The literal blocks named name in body b; the last one is the one kept.
Literals(b, name) == {i \in 1..Len(b.Blocks) : b.Blocks[i].Type = name}

Last(idx) == CHOOSE i \in idx : \A j \in idx : j <= i

\* Every BlockData of a tree.
RECURSIVE Nodes(_)
Nodes(bd) ==
    {bd} \cup UNION {Nodes(bd.staticBlocks[k]) : k \in DOMAIN bd.staticBlocks}
         \cup UNION {Nodes(bd.dynamicBlocks[k]) : k \in DOMAIN bd.dynamicBlocks}

Built == pc # "parse"

\* No lifecycle or dynamic block becomes a literal child of any BlockData of the tree.
NoMarkerChild ==
    \A bd \in Nodes(data) :
        "lifecycle" \notin DOMAIN bd.staticBlocks /\ "dynamic" \notin DOMAIN bd.staticBlocks

\* C9: once a body is built, the names of every lifecycle block written in it are
\* in the ignoreChanges of the BlockData of that same body (the resource body,
\* and the body of the literal "ip_rule" block kept), and no BlockData of the tree
\* has a staticBlocks entry "lifecycle" or "dynamic".
C9_LifecycleAttached ==
    Built =>
        /\ Attached(body, data)
        /\ Literals(body, "ip_rule") # {} =>
              Attached(body.Blocks[Last(Literals(body, "ip_rule"))].Body,
                       data.staticBlocks["ip_rule"])
        /\ NoMarkerChild

\* C10: when exactly one lifecycle block of the resource body sets ignore_changes,
\* the exclusion list built is the one name of a string value, the string
\* elements of a list, set or tuple value, and empty for any other value.
C10_Extraction ==
    Built =>
        \A i \in Lifecycles(body) :
            Lifecycles(body) = {i} =>
                data.ignoreChanges = DeclaredNames(IgnoreChangesOf(body.Blocks[i]))

\* The exclusion list built is the list extracted from the last lifecycle block
\* of the body that sets ignore_changes.
LastLifecycleWins ==
    Built /\ Lifecycles(body) # {} =>
        data.ignoreChanges =
            extractIgnoreChanges(IgnoreChangesOf(body.Blocks[Last(Lifecycles(body))]))

\* The type names of the literal blocks written directly in body b.
LiteralTypes(b) ==
    {b.Blocks[i].Type : i \in 1..Len(b.Blocks)} \ {"lifecycle", "dynamic"}

\* The labels of the well-formed dynamic blocks written directly in body b.
DynamicLabels(b) ==
    {b.Blocks[i].Labels[1] :
        i \in {j \in 1..Len(b.Blocks) :
                  b.Blocks[j].Type = "dynamic" /\ Len(b.Blocks[j].Labels) = 1}}

\* A finding with this path, name and kind is in the collector.
Reported(path, name, isBlock) ==
    \E i \in FindingIdx :
        /\ findings[i].Path = path
        /\ findings[i].Name = name
        /\ findings[i].IsBlock = isBlock

\* C11: when a body has several literal "ip_rule" blocks, staticBlocks["ip_rule"]
\* is built from the last one alone: its properties, literal children and dynamic
\* children are exactly those written in the last occurrence; what only earlier
\* occurrences have is reported missing by the finished walk (unless excluded);
\* and no error is raised.
C11_LastOccurrenceWins ==
    Built /\ Literals(body, "ip_rule") # {} =>
        LET last == body.Blocks[Last(Literals(body, "ip_rule"))].Body
            kept == data.staticBlocks["ip_rule"]
        IN /\ "ip_rule" \in DOMAIN data.staticBlocks
           /\ kept.properties = DOMAIN last.Attributes
           /\ DOMAIN kept.staticBlocks = LiteralTypes(last)
           /\ DOMAIN kept.dynamicBlocks = DynamicLabels(last)
           /\ pc # "panic"
           /\ pc = "done" =>
                /\ "tags" \notin DOMAIN last.Attributes /\ ~InList(kept.ignoreChanges, "tags")
                      => Reported("root.ip_rule", "tags", FALSE)
                /\ "rule" \notin LiteralTypes(last) /\ ~InList(kept.ignoreChanges, "rule")
                      => Reported("root.ip_rule", "rule", TRUE)

\* Two literal "ip_rule" blocks, the first with the attribute tags and a "rule"
\* block, the last bare; the walk is over and has reported both as missing.
C11_Witness ==
    /\ pc = "done"
    /\ Cardinality(Literals(body, "ip_rule")) = 2
    /\ LET first == body.Blocks[CHOOSE i \in Literals(body, "ip_rule") : i # Last(Literals(body, "ip_rule"))].Body
           last == body.Blocks[Last(Literals(body, "ip_rule"))].Body
       IN /\ "tags" \in DOMAIN first.Attributes
          /\ "rule" \in LiteralTypes(first)
          /\ last = Body(<<>>, <<>>)
    /\ Reported("root.ip_rule", "tags", FALSE)
    /\ Reported("root.ip_rule", "rule", TRUE)

\* The well-formed dynamic declarations labelled label written directly in body b.
Declarations(b, label) ==
    {i \in 1..Len(b.Blocks) :
        /\ b.Blocks[i].Type = "dynamic"
        /\ b.Blocks[i].Labels = <<label>>}

\* The bodies of the immediate content children of a dynamic block.
Contents(block) ==
    {block.Body.Blocks[i].Body :
        i \in {j \in 1..Len(block.Body.Blocks) : block.Body.Blocks[j].Type = "content"}}

\* bd has the attributes, literal children and dynamic children written in body b.
ShapeOf(bd, b) ==
    /\ bd.properties = DOMAIN b.Attributes
    /\ DOMAIN bd.staticBlocks = LiteralTypes(b)
    /\ DOMAIN bd.dynamicBlocks = DynamicLabels(b)

\* C12: when a body has one dynamic declaration labelled "ip_rule",
\* dynamicBlocks["ip_rule"] has the shape of the body of a content child of the
\* declaration when it has one, and then not the declaration's own for_each; it
\* has the shape of the declaration's own body, for_each included, when it has
\* no content child; and the declaration adds no staticBlocks entry "ip_rule".
C12_DynamicResolver ==
    Built =>
        \A i \in Declarations(body, "ip_rule") :
            Declarations(body, "ip_rule") = {i} =>
                /\ "ip_rule" \in DOMAIN data.dynamicBlocks
                /\ IF Contents(body.Blocks[i]) # {}
                   THEN /\ \E c \in Contents(body.Blocks[i]) :
                              ShapeOf(data.dynamicBlocks["ip_rule"], c)
                        /\ "for_each" \notin data.dynamicBlocks["ip_rule"].properties
                   ELSE /\ ShapeOf(data.dynamicBlocks["ip_rule"], body.Blocks[i].Body)
                        /\ "for_each" \in data.dynamicBlocks["ip_rule"].properties
                /\ Literals(body, "ip_rule") = {} => "ip_rule" \notin DOMAIN data.staticBlocks

\* One dynamic "ip_rule" declaration whose content child, written after a "rule"
\* block, holds the attribute tags: the shape built has tags and no "rule" child.
C12_Witness ==
    /\ Built
    /\ \E i \in Declarations(body, "ip_rule") :
          /\ Declarations(body, "ip_rule") = {i}
          /\ Len(body.Blocks[i].Body.Blocks) = 2
          /\ body.Blocks[i].Body.Blocks[1].Type = "rule"
          /\ body.Blocks[i].Body.Blocks[2].Type = "content"
    /\ "ip_rule" \in DOMAIN data.dynamicBlocks
    /\ data.dynamicBlocks["ip_rule"].properties = {"tags"}
    /\ data.dynamicBlocks["ip_rule"].staticBlocks = <<>>

\* The indices of a set in increasing order.
RECURSIVE Ascending(_)
Ascending(idx) ==
    IF idx = {} THEN <<>>
    ELSE Ascending(idx \ {Last(idx)}) \o <<Last(idx)>>

\* The rendered shapes of the declarations labelled label of body b, in body order.
Shapes(b, label) ==
    LET decls == Ascending(Declarations(b, label))
    IN [i \in 1..Len(decls) |-> ParseSyntaxBody(findContentBlock(b.Blocks[decls[i]].Body))]

RECURSIVE Concat(_)
Concat(lists) == IF lists = <<>> THEN <<>> ELSE Head(lists) \o Concat(Tail(lists))

\* The children under key k of those BlockData of ss that have one, in order.
Under(ss, field, k) ==
    LET having == SelectSeq(ss, LAMBDA x : k \in DOMAIN x[field])
    IN [i \in 1..Len(having) |-> having[i][field][k]]

\* m is the recursive union of the BlockData ss: the union of their properties,
\* every key of every one of them, the children under one key united the same
\* way, and their ignoreChanges one after the other.
RECURSIVE UnionOf(_, _)
UnionOf(m, ss) ==
    /\ m.properties = UNION {ss[i].properties : i \in 1..Len(ss)}
    /\ DOMAIN m.staticBlocks = UNION {DOMAIN ss[i].staticBlocks : i \in 1..Len(ss)}
    /\ DOMAIN m.dynamicBlocks = UNION {DOMAIN ss[i].dynamicBlocks : i \in 1..Len(ss)}
    /\ \A k \in DOMAIN m.staticBlocks :
          UnionOf(m.staticBlocks[k], Under(ss, "staticBlocks", k))
    /\ \A k \in DOMAIN m.dynamicBlocks :
          UnionOf(m.dynamicBlocks[k], Under(ss, "dynamicBlocks", k))
    /\ m.ignoreChanges = Concat([i \in 1..Len(ss) |-> ss[i].ignoreChanges])

RunOver(i) == i < Len(runs) \/ pc = "done"

\* The findings appended between the outermost call i and its return.
RunFindings(i) ==
    {findings[k] :
        k \in (runs[i].at + 1)..(IF i < Len(runs) THEN runs[i + 1].at ELSE Len(findings))}

SameResource(i, j) ==
    /\ runs[i].Type = runs[j].Type
    /\ runs[i].data = runs[j].data
    /\ runs[i].schema = runs[j].schema

\* C14: two outermost calls on the same BlockData and schema, with the same
\* resource type, path and ancestor exclusion list, append the same set of
\* findings; the tree and the schema handed to the later call are those handed
\* to the earlier one.
C14_Idempotent ==
    \A i, j \in 1..Len(runs) :
        i < j /\ RunOver(j) /\ SameResource(i, j) => RunFindings(i) = RunFindings(j)

\* The same resource walked twice with the same non-nil ancestor list, into whose
\* spare capacity each walk appends the root's own exclusions; both walks report.
C14_Witness ==
    /\ pc = "done"
    /\ Len(runs) = 2
    /\ SameResource(1, 2)
    /\ ancestorIgnore # NilSlice
    /\ runs[1].data.ignoreChanges # <<>>
    /\ RunFindings(1) # {}
    /\ RunFindings(2) # {}

(***************************************************************************)
(* Properties of the findings sink                                         *)
(***************************************************************************)

\* The open issues carrying the well-known title.
Titled(list) == {i \in 1..Len(list) : list[i].Title = title}

\* How many times sub occurs in str.
Count(str, sub) == Cardinality({i \in 1..Len(str) : IsAt(str, i, sub)})

\* The distinct keys (resource type, path without "root.", name, kind) of a list.
Keys(fs) ==
    {<<fs[i].ResourceType, CleanPath(fs[i].Path), fs[i].Name, fs[i].IsBlock>> : i \in 1..Len(fs)}

\* Text b holds one line per distinct key of fs: as many lines as keys, and for
\* every finding of fs one line naming its type, name and stripped path.
OneLinePerKey(b, fs) ==
    /\ Count(b, ": Missing ") = Cardinality(Keys(fs))
    /\ \A i \in 1..Len(fs) :
          \E kind \in {"required", "optional"}, what \in {"block", "property"} :
              /\ (what = "block") = fs[i].IsBlock
              /\ Count(b, tick \o fs[i].ResourceType \o tick \o ": Missing " \o kind \o " " \o what
                          \o " " \o tick \o fs[i].Name \o tick \o " in "
                          \o CleanPath(fs[i].Path) \o "\n\n") = 1

\* One step of the sink: a call with findings creates the issue when none is
\* open under the title and changes nothing else; otherwise it rewrites the body
\* of that issue and creates none.
CreateOrUpdateStep ==
    findings' # <<>> =>
        IF Titled(issues) = {}
        THEN /\ Len(issues') = Len(issues) + 1
             /\ Cardinality(Titled(issues')) = 1
             /\ \A i \in 1..Len(issues) : \E j \in 1..Len(issues') : issues'[j] = issues[i]
        ELSE /\ Len(issues') = Len(issues)
             /\ \A i \in 1..Len(issues) :
                   /\ issues'[i].Number = issues[i].Number
                   /\ issues'[i].Title = issues[i].Title
                   /\ i \notin Titled(issues) => issues'[i] = issues[i]

IntBits == 5

\* Longest report tried.
MaxLevels == 3

MaxInt == 2 ^ (IntBits - 1) - 1

MinInt == 0 - 2 ^ (IntBits - 1)

\* An int result: the mathematical value reduced into MinInt..MaxInt.
Wrap(x) == ((x - MinInt) % (2 ^ IntBits)) + MinInt

\* What int(f) can give when f is outside the range of int: the conversion
\* succeeds with a value that depends on the build.
Conversions == {MinInt, MaxInt}

\* int(math.Abs(float64(d))) for an int d; conv is what the build gives for a
\* float that no int represents, which happens for d = MinInt alone.
AbsInt(d, conv) ==
    LET abs == IF d < 0 THEN 0 - d ELSE d
    IN IF abs > MaxInt THEN conv ELSE abs

\* The loop of ValidateReports from index i (counted from 1) on, with the two
\* flags as they stand.
RECURSIVE ValidateFrom(_, _, _, _, _)
ValidateFrom(levels, i, isIncreasing, isDecreasing, conv) ==
    IF i > Len(levels) - 1 THEN TRUE
    ELSE LET diff == AbsInt(Wrap(levels[i + 1] - levels[i]), conv)
             inc == isIncreasing /\ ~(levels[i] > levels[i + 1])
             dec == isDecreasing /\ ~(levels[i] < levels[i + 1])
         IN IF diff < 1 \/ diff > 3 THEN FALSE
            ELSE IF ~inc /\ ~dec THEN FALSE
            ELSE ValidateFrom(levels, i + 1, inc, dec, conv)

\* func (rp *ReportProcessorImpl) ValidateReports(report []int) bool
ValidateReportsResult(levels, conv) == ValidateFrom(levels, 1, TRUE, TRUE, conv)

\* Levels at both ends of the range of int and small ones: equal neighbours,
\* steps of 1, 2, 3 and 4, and steps across the whole range.
Levels == {MinInt, MinInt + 1, MaxInt, 0, 1, 2, 3, 6}

Reports == SeqsUpTo(Levels, MaxLevels)

\* One call of ValidateReports on the report.
ValidateReports ==
    /\ safe = <<>>
    /\ \E conv \in Conversions : safe' = <<ValidateReportsResult(report, conv)>>
    /\ UNCHANGED <<body, resType, data, schema, ancestorIgnore, heap, stack, findings, pc,
                   pending, issues, sink, report, mr, err, calls, runs>>

InitReports ==
    /\ body = Body(<<>>, <<>>)
    /\ resType \in ResourceTypes
    /\ data = NewBlockData
    /\ schema = NilSchema
    /\ heap = <<>>
    /\ ancestorIgnore = NilSlice
    /\ stack = <<>>
    /\ findings = <<>>
    /\ pc = "done"
    /\ pending = <<>>
    /\ issues = <<>>
    /\ sink = NoCall
    /\ report \in Reports
    /\ safe = <<>>
    /\ mr = NewMulReconciler
    /\ err = <<>>
    /\ calls = {}
    /\ runs = <<>>

NextReports == ValidateReports

SpecReports == InitReports /\ [][NextReports]_vars

\* Every level is at least the previous one, or every level is at most the
\* previous one.
OneTrend(levels) ==
    \/ \A i \in 1..(Len(levels) - 1) : levels[i + 1] >= levels[i]
    \/ \A i \in 1..(Len(levels) - 1) : levels[i + 1] <= levels[i]

\* The absolute difference of every two adjacent levels is 1, 2 or 3.
StepsInRange(levels) ==
    \A i \in 1..(Len(levels) - 1) :
        LET d == levels[i + 1] - levels[i]
        IN (IF d < 0 THEN 0 - d ELSE d) \in 1..3

\* No difference of adjacent levels leaves the range of int.
Representable(levels) ==
    \A i \in 1..(Len(levels) - 1) :
        /\ levels[i + 1] - levels[i] <= MaxInt
        /\ levels[i + 1] - levels[i] > MinInt

\* C16: ValidateReports returns true exactly when the report keeps one trend
\* (never falling, or never rising) and the absolute difference of every two
\* adjacent levels is within 1 to 3; it returns false for every other report.
C16_ValidateReports ==
    safe # <<>> => (safe[1] <=> (OneTrend(report) /\ StepsInRange(report)))

\* The same on the reports whose differences fit in an int.
ValidateReportsRepresentable ==
    (safe # <<>> /\ Representable(report)) =>
        (safe[1] <=> (OneTrend(report) /\ StepsInRange(report)))

(***************************************************************************)
(* mulcalc: Process, GetResults, GetTotal                                  *)
(***************************************************************************)

\* Most pieces an input is put together from.
MaxFragments == 2

\* Most Process calls in a run.
MaxProcess == 2

Digits == "0123456789"

IsDigit(c) == \E d \in 1..10 : SubSeq(Digits, d, d) = c

\* Length of the longest run of digits of str that starts at i: \d+ is greedy.
RECURSIVE DigitRun(_, _)
DigitRun(str, i) ==
    IF i <= Len(str) /\ IsDigit(SubSeq(str, i, i)) THEN 1 + DigitRun(str, i + 1) ELSE 0

\* The match of mul\((\d+),(\d+)\) that starts at i: the whole match and its
\* two groups, or no match (Original = "").
NoMatch == [Original |-> "", X |-> "", Y |-> ""]

MatchAt(str, i) ==
    IF ~IsAt(str, i, "mul(") THEN NoMatch
    ELSE LET a == DigitRun(str, i + 4)
             comma == i + 4 + a
         IN IF a = 0 \/ ~IsAt(str, comma, ",") THEN NoMatch
            ELSE LET b == DigitRun(str, comma + 1)
                     close == comma + 1 + b
                 IN IF b = 0 \/ ~IsAt(str, close, ")") THEN NoMatch
                    ELSE [Original |-> SubSeq(str, i, close),
                          X |-> SubSeq(str, i + 4, comma - 1),
                          Y |-> SubSeq(str, comma + 1, close - 1)]

\* mr.regex.FindAllStringSubmatch(str, -1) from position i on: the leftmost
\* match, then the matches after its end.
RECURSIVE FindAllFrom(_, _)
FindAllFrom(str, i) ==
    IF i > Len(str) THEN <<>>
    ELSE LET m == MatchAt(str, i)
         IN IF m = NoMatch THEN FindAllFrom(str, i + 1)
            ELSE <<m>> \o FindAllFrom(str, i + Len(m.Original))

FindAllStringSubmatch(str) == FindAllFrom(str, 1)

\* The number a string of digits denotes.
RECURSIVE Decimal(_)
Decimal(str) ==
    IF str = "" THEN 0
    ELSE 10 * Decimal(SubSeq(str, 1, Len(str) - 1))
         + ((CHOOSE d \in 1..10 : SubSeq(Digits, d, d) = SubSeq(str, Len(str), Len(str))) - 1)

\* strconv.Atoi on a string of digits: its value, or an error when no int holds it.
Atoi(str) ==
    IF Decimal(str) > MaxInt THEN [ok |-> FALSE, val |-> MaxInt]
    ELSE [ok |-> TRUE, val |-> Decimal(str)]

MultiplicationResult(x, y, product, original) ==
    [X |-> x, Y |-> y, Product |-> product, Original |-> original]

\* for _, match := range matches, from match k on; m is the reconciler and the
\* result is the reconciler after the loop with what Process returns.
RECURSIVE ProcessLoop(_, _, _)
ProcessLoop(m, matches, k) ==
    IF k > Len(matches) THEN [mr |-> m, err |-> "nil"]
    ELSE LET x == Atoi(matches[k].X)
             y == Atoi(matches[k].Y)
         IN IF ~x.ok THEN [mr |-> m, err |-> "invalid first number"]
            ELSE IF ~y.ok THEN [mr |-> m, err |-> "invalid second number"]
            ELSE LET product == Wrap(x.val * y.val)
                 IN ProcessLoop(
                        [m EXCEPT !.total = Wrap(m.total + product),
                                  !.results = Append(m.results,
                                      MultiplicationResult(x.val, y.val, product,
                                                           matches[k].Original))],
                        matches, k + 1)

\* Mutant of Process: results and total carried over from the call before.
ProcessAccumulate(m) ==
    LET matches == FindAllStringSubmatch(m.input)
    IN IF Len(matches) = 0 THEN [mr |-> m, err |-> "ErrNoMatches"]
       ELSE ProcessLoop(m, matches, 1)

\* func (mr *MulReconcilerImpl) Process() error
Process(m) ==
    LET matches == FindAllStringSubmatch(m.input)
    IN IF Len(matches) = 0 THEN [mr |-> m, err |-> "ErrNoMatches"]
       ELSE ProcessLoop([m EXCEPT !.results = <<>>, !.total = 0], matches, 1)

\* func (mr *MulReconcilerImpl) GetResults() []MultiplicationResult
GetResults == mr.results

\* func (mr *MulReconcilerImpl) GetTotal() int
GetTotal == mr.total

\* func (mr *MulReconsilerImpl) ValidateInputs() error, the variant that keeps
\* the total alone: the Total it leaves for the input, with what it returns.
RECURSIVE ValidateInputsLoop(_, _, _)
ValidateInputsLoop(matches, k, total) ==
    IF k > Len(matches) THEN [Total |-> total, err |-> "nil"]
    ELSE LET x == Atoi(matches[k].X)
             y == Atoi(matches[k].Y)
         IN IF ~x.ok \/ ~y.ok THEN [Total |-> 0, err |-> "error"]
            ELSE ValidateInputsLoop(matches, k + 1, Wrap(total + Wrap(x.val * y.val)))

ValidateInputs(input) == ValidateInputsLoop(FindAllStringSubmatch(input), 1, 0)

\* Pieces of corrupted memory: the pieces of the input of main (instructions
\* after noise, with a wrong bracket, one right after another), an instruction
\* with a leading zero, one with a missing operand and one with an operand no
\* int holds.
Fragments ==
    {"xmul(2,4)%&mul[3,7]", "!@^do_not_mul(5,5)", "+mul(32,64]", "then(mul(11,8)mul(8,5))",
     "mul(03,1)", "mul(4,)", "mul(99,1)"}

RECURSIVE Join(_)
Join(pieces) == IF pieces = <<>> THEN "" ELSE Head(pieces) \o Join(Tail(pieces))

Inputs == {Join(pieces) : pieces \in SeqsUpTo(Fragments, MaxFragments)}

\* func (mr *MulReconcilerImpl) SetInput(input string) error, called once as
\* main does; the empty input is refused and nothing is set.
SetInput ==
    /\ mr.input = ""
    /\ err = <<>>
    /\ \E input \in Inputs :
          mr' = IF input = "" THEN mr ELSE [mr EXCEPT !.input = input]
    /\ UNCHANGED <<body, resType, data, schema, ancestorIgnore, heap, stack, findings, pc,
                   pending, issues, sink, report, safe, err, calls, runs>>

\* One call of Process.
ProcessCall ==
    /\ Len(err) < MaxProcess
    /\ LET done == Process(mr)
       IN /\ mr' = done.mr
          /\ err' = Append(err, done.err)
    /\ UNCHANGED <<body, resType, data, schema, ancestorIgnore, heap, stack, findings, pc,
                   pending, issues, sink, report, safe, calls, runs>>

InitMul ==
    /\ body = Body(<<>>, <<>>)
    /\ resType \in ResourceTypes
    /\ data = NewBlockData
    /\ schema = NilSchema
    /\ heap = <<>>
    /\ ancestorIgnore = NilSlice
    /\ stack = <<>>
    /\ findings = <<>>
    /\ pc = "done"
    /\ pending = <<>>
    /\ issues = <<>>
    /\ sink = NoCall
    /\ report = <<>>
    /\ safe = <<>>
    /\ mr = NewMulReconciler
    /\ err = <<>>
    /\ calls = {}
    /\ runs = <<>>

NextMul == SetInput \/ ProcessCall

SpecMul == InitMul /\ [][NextMul]_vars

(***************************************************************************)
(* Properties of mulcalc                                                   *)
(***************************************************************************)

\* str holds digits alone from position i to position j, and at least one.
AllDigits(str, i, j) == i <= j /\ \A k \in i..j : IsDigit(SubSeq(str, k, k))

\* A valid instruction mul(X,Y) stands in str from position i to position j,
\* with X ending at position c - 1 and Y starting at position c + 1.
Instruction(str, i, c, j) ==
    /\ IsAt(str, i, "mul(")
    /\ AllDigits(str, i + 4, c - 1)
    /\ IsAt(str, c, ",")
    /\ AllDigits(str, c + 1, j - 1)
    /\ IsAt(str, j, ")")

\* The valid instructions of str, by where they start.
Instructions(str) ==
    {i \in 1..Len(str) :
        /\ IsAt(str, i, "mul(")
        /\ \E c \in (i + 5)..Len(str) :
              /\ IsAt(str, c, ",")
              /\ \E j \in (c + 2)..Len(str) : Instruction(str, i, c, j)}

\* The n-th element of a set of numbers, counted from the smallest.
Nth(set, n) == CHOOSE i \in set : Cardinality({j \in set : j < i}) = n - 1

\* Entry e is the result for the instruction of str that starts at i.
ResultOf(str, i, e) ==
    \E c \in (i + 5)..Len(str), j \in (i + 7)..Len(str) :
        /\ Instruction(str, i, c, j)
        /\ e.Original = SubSeq(str, i, j)
        /\ e.X = Decimal(SubSeq(str, i + 4, c - 1))
        /\ e.Y = Decimal(SubSeq(str, c + 1, j - 1))
        /\ e.Product = Wrap(e.X * e.Y)

\* The int sum of the products of the first n entries.
RECURSIVE SumOfProducts(_, _)
SumOfProducts(results, n) ==
    IF n = 0 THEN 0 ELSE Wrap(SumOfProducts(results, n - 1) + results[n].Product)

FindingsUnder(q) == {i \in FindingIdx : AtOrBelow(findings[i].Path, q)}

\* A set of indices without a gap.
Contiguous(idx) == \A i, j \in idx : \A k \in i..j : k \in idx

\* C18: within one outermost Validate call, every attribute finding at a path p
\* comes before every block finding at p and before every finding at a path
\* that extends p; and the findings at or below the path of a nested block are
\* contiguous, so that the findings of one block type handled at p are all
\* collected before those of the next.
C18_FindingOrder ==
    /\ \A i, j \in FindingIdx :
          ~findings[i].IsBlock =>
              /\ (findings[j].IsBlock /\ findings[j].Path = findings[i].Path) => i < j
              /\ HasPrefix(findings[j].Path, findings[i].Path \o ".") => i < j
    /\ \A c \in calls : c.path # "root" => Contiguous(FindingsUnder(c.path))

\* A finished walk with a missing attribute at the root, then missing attributes
\* in "ip_rule" and in the "rule" block inside it, then one in the sibling "rule".
C18_Witness ==
    /\ pc = "done"
    /\ \E i, j, k, l \in FindingIdx :
          /\ i < j /\ j < k /\ k < l
          /\ findings[i].Path = "root" /\ ~findings[i].IsBlock
          /\ findings[j].Path = "root.ip_rule" /\ ~findings[j].IsBlock
          /\ findings[k].Path = "root.ip_rule.rule"
          /\ findings[l].Path = "root.rule"

(***************************************************************************)
(* Properties of the collector                                             *)
(***************************************************************************)

\* What a walk of block bd against schema node sch at path, entered with the
\* exclusion list parentExcl, has to report: for bd itself and, for every block
\* type that is not passed over and has a child, for that child.
RECURSIVE ExpectedFindings(_, _, _, _, _)
ExpectedFindings(rt, bd, sch, path, parentExcl) ==
    IF sch.IsNil THEN {}
    ELSE LET excl == parentExcl \o bd.ignoreChanges
             entered == {n \in DOMAIN sch.BlockTypes :
                            /\ n # "timeouts"
                            /\ ~InList(excl, n)
                            /\ ChildrenNamed(bd, n) # {}}
         IN {ValidationFinding(rt, path, n, sch.Attributes[n].Required, FALSE) :
                n \in ExpectedAttrs(bd, sch, excl)}
            \cup {ValidationFinding(rt, path, n, sch.BlockTypes[n].MinItems > 0, TRUE) :
                    n \in ExpectedBlocks(bd, sch, excl)}
            \cup UNION {ExpectedFindings(rt,
                            IF n \in DOMAIN bd.staticBlocks THEN bd.staticBlocks[n]
                            ELSE bd.dynamicBlocks[n],
                            sch.BlockTypes[n].Block, path \o "." \o n, excl) : n \in entered}

\* How many findings were appended between the outermost call i and its return.
RunLength(i) == (IF i < Len(runs) THEN runs[i + 1].at ELSE Len(findings)) - runs[i].at

\* The collector only grows at its end.
AppendOnly ==
    /\ Len(findings') >= Len(findings)
    /\ SubSeq(findings', 1, Len(findings)) = findings

\* C19: no step of a walk removes, reorders or changes a finding already in the
\* collector, so what it held before a Validate call is a prefix of what it
\* holds after; and over a sequence of resources sharing the collector, the
\* findings a resource contributes are those its own tree, schema and the
\* ancestor list call for, whatever the resources walked before it left.
C19_AppendOnly ==
    /\ [][AppendOnly]_vars
    /\ [](\A i \in 1..Len(runs) :
            RunOver(i) =>
                /\ RunFindings(i) =
                     ExpectedFindings(runs[i].Type, runs[i].data, runs[i].schema, "root",
                                      Elems(heap, ancestorIgnore))
                /\ RunLength(i) = Cardinality(RunFindings(i)))

\* Two different resources walked one after the other, both reporting, the
\* second into a collector that held the findings of the first.
C19_Witness ==
    /\ pc = "done"
    /\ Len(runs) = 2
    /\ ~SameResource(1, 2)
    /\ runs[2].at > 0
    /\ RunFindings(1) # RunFindings(2)
    /\ RunLength(2) > 1
    /\ SubSeq(findings, 1, runs[2].at) # <<>>

(***************************************************************************)
(* Properties of the exclusion lists of sibling blocks                     *)
(***************************************************************************)

\* The call made at path p.
CallAt(p) == CHOOSE c \in calls : c.path = p

\* The paths of the calls made at path or above it.
Ancestry(path) == {c.path : c \in {d \in calls : AtOrBelow(path, d.path)}}

\* The ignoreChanges of the blocks at the paths of a chain, outermost first.
RECURSIVE ChainOver(_)
ChainOver(paths) ==
    IF paths = {} THEN <<>>
    ELSE LET innermost == CHOOSE q \in paths : \A r \in paths : Len(r) <= Len(q)
         IN ChainOver(paths \ {innermost}) \o CallAt(innermost).bd.ignoreChanges

\* Every call that stays active over a step and has computed its list finds the
\* list with the same contents after the step.
ListsKept ==
    \A i \in 1..Len(stack) :
        (i <= Len(stack') /\ stack[i].at # "call") =>
            Elems(heap', stack'[i].ignore) = Elems(heap, stack[i].ignore)

\* C20: the exclusion list in force at every visited block holds the names of
\* the ancestorIgnore argument, then those of the blocks above it, then its
\* own, and nothing of a sibling or a sibling's subtree, also when sibling calls
\* append into one backing array; the list of a call keeps its contents over
\* every step of its descendants, so after each child returns; and the findings
\* of a finished walk are those the lists built downwards call for.
C20_DownwardsOnly ==
    /\ [](\A c \in Visited :
            /\ Cardinality(Ancestry(c.path)) = Len(Split(c.path))
            /\ c.ignore = RootArg \o ChainOver(Ancestry(c.path)))
    /\ [](\A i \in 1..Len(stack) :
            stack[i].at # "call" =>
                Elems(heap, stack[i].ignore) = RootArg \o ChainOver(Ancestry(stack[i].path)))
    /\ [][ListsKept]_vars
    /\ [](pc = "done" =>
            {findings[i] : i \in FindingIdx} =
                ExpectedFindings(resType, data, schema, "root", RootArg))

\* A finished walk in which "ip_rule", excluding tags, and its sibling "rule",
\* excluding ip_rule, both appended their name into the spare capacity of the one
\* array the caller passed: tags is reported in "rule" and not in "ip_rule".
C20_Witness ==
    /\ pc = "done"
    /\ Len(heap) = 1
    /\ ancestorIgnore.arr = 1
    /\ \E c1, c2 \in Visited :
          /\ c1.path = "root.ip_rule"
          /\ c2.path = "root.rule"
          /\ c1.bd.ignoreChanges = <<"tags">>
          /\ c2.bd.ignoreChanges = <<"ip_rule">>
          /\ Len(c1.ignore) = 2
          /\ Len(c2.ignore) = 2
    /\ \E i \in FindingIdx : findings[i].Path = "root.rule" /\ findings[i].Name = "tags"
    /\ \A i \in FindingIdx : findings[i].Path # "root.ip_rule"

(***************************************************************************)
(* Properties of excluded block types                                      *)
(***************************************************************************)

\* C21: at every visited block, a schema block type whose name is in the
\* exclusion list in force there is passed over even when the block has a
\* static or dynamic child of that name: no Validate call is made at the
\* child's path or below it, none is active there, and no finding has a path
\* at or below it, whatever the child lacks.
C21_ExcludedBlockSkipped ==
    \A c \in Visited : \A n \in DOMAIN c.schema.BlockTypes :
        InList(c.ignore, n) =>
            /\ \A d \in calls : ~AtOrBelow(d.path, NewPath(c.path, n))
            /\ \A i \in 1..Len(stack) : ~AtOrBelow(stack[i].path, NewPath(c.path, n))
            /\ \A i \in FindingIdx : ~AtOrBelow(findings[i].Path, NewPath(c.path, n))

\* A finished walk of a root that excludes ip_rule and has ip_rule as a dynamic
\* block alone, without the tags its schema requires: tags is reported at the
\* root and nothing is reported below the root.
C21_Witness ==
    /\ pc = "done"
    /\ data.ignoreChanges = <<"ip_rule">>
    /\ "ip_rule" \notin DOMAIN data.staticBlocks
    /\ "ip_rule" \in DOMAIN data.dynamicBlocks
    /\ "tags" \notin data.dynamicBlocks["ip_rule"].properties
    /\ data.dynamicBlocks["ip_rule"].ignoreChanges = <<>>
    /\ ~schema.IsNil
    /\ "ip_rule" \in DOMAIN schema.BlockTypes
    /\ ~schema.BlockTypes["ip_rule"].Block.IsNil
    /\ schema.BlockTypes["ip_rule"].Block.Attributes["tags"].Required
    /\ ~schema.BlockTypes["ip_rule"].Block.Attributes["tags"].Computed
    /\ \E i \in FindingIdx : findings[i].Name = "tags"
    /\ \A i \in FindingIdx : findings[i].Path = "root"

====
